---- MODULE Spec2Model ----
(***************************************************************************)
(* The chat widget of widget-frontend: the Chatbot component (chatbot.tsx) *)
(* with its WebSocket lifecycle, and the ChatInput component               *)
(* (chat-input.tsx) that feeds it.                                         *)
(*                                                                         *)
(* A text is a sequence of characters.  Literals of the source that are    *)
(* only ever compared as a whole are written as one token.                 *)
(* React's scheduling is modelled as React 18 documents it: an event       *)
(* handler attached through React (onKeyDown, onClick) is followed by a    *)
(* synchronous re-render; a state update made from a socket callback is    *)
(* rendered later; passive effects (useEffect) run after the commit, and   *)
(* at the latest before the next render.                                   *)
(***************************************************************************)
EXTENDS Integers, Sequences, FiniteSets, TLC

\* ---------------------------------------------------------------- bounds
\* Messages appended to one transcript after the greeting.
MaxMsgs == 2
\* Sockets one widget creates (runs of the WebSocket effect).
MaxSockets == 2
\* Milliseconds that pass after the page is shown.
MaxTicks == 1
\* Date.now() when the page is shown (scaled down to fit TLC's integers).
Epoch == 1700

\* ---------------------------------------------------------------- values
Widgets == {1, 2}

undefined == "undefined"

\* The applicationContext objects the page may pass to widget w.
ContextsOf(w) == IF w = 1 THEN {"Ana"} ELSE {"Cy"}

PropsOf(w) == {undefined} \cup ContextsOf(w)

first_name(c) == c

matching_score(c) == IF c = "Ana" THEN "82" ELSE "64"

\* What the user of widget w can have in the textarea after typing.
TextsOf(w) ==
  LET k == IF w = 1 THEN "a" ELSE "b"
  IN  {<< " " >>, << " ", k >>}

Connected == << "connected" >>

\* Text frames the server may push on a socket of widget w.
FramesOf(w) == {Connected, IF w = 1 THEN << "x" >> ELSE << "y" >>}

PrimingText == << "Initialize conversation with application context" >>

Keys == {"Enter", "a"}

Digit == << "0", "1", "2", "3", "4", "5", "6", "7", "8", "9" >>

\* Number.prototype.toString on a non-negative integer.
RECURSIVE toString(_)
toString(n) ==
  IF n < 10 THEN << Digit[n + 1] >>
  ELSE toString(n \div 10) \o << Digit[(n % 10) + 1] >>

GreetingId == << "1" >>

\* Mutant of trim: the text is tested as it is.
trimForgotten(s) == s

\* String.prototype.trim: leading and trailing white space removed.
RECURSIVE trimStart(_)
trimStart(s) ==
  IF s # << >> /\ Head(s) = " " THEN trimStart(Tail(s)) ELSE s

RECURSIVE trimEnd(_)
trimEnd(s) ==
  IF s # << >> /\ s[Len(s)] = " " THEN trimEnd(SubSeq(s, 1, Len(s) - 1)) ELSE s

trim(s) ==
  trimEnd(trimStart(s))

\* ---------------------------------------------------------------- state
VARIABLES
  phase,              \* per widget: "absent", "mounted" or "unmounted"
  applicationContext, \* per widget: the prop of the last committed render
  messages,           \* per widget: the useState value, all updates applied
  renderedMessages,   \* per widget: `messages` as bound by the last render
  sockets,            \* per widget: the WebSockets it created, in order
  wsRef,              \* per widget: wsRef.current, an index into sockets, 0 = null
  effect,             \* per widget: the socket `ws` of the effect that is set up, 0 = none
  textarea,           \* per widget: the value of its <textarea>
  now                 \* Date.now() as last read

vars == << phase, applicationContext, messages, renderedMessages, sockets,
           wsRef, effect, textarea, now >>

\* The greeting the first render puts in the transcript.
initialMessages(ctx) ==
  << [ id |-> GreetingId,
       content |-> IF ctx # undefined
                   THEN << "Hello ", first_name(ctx), "! matching score ",
                           matching_score(ctx), "%" >>
                   ELSE << "Hello! How can I help you today?" >>,
       role |-> "assistant" ] >>

\* The widgets in `on` after their first render has been committed.
MountedWith(on) ==
  /\ phase = [w \in Widgets |-> IF w \in on THEN "mounted" ELSE "absent"]
  /\ applicationContext \in [Widgets -> UNION {PropsOf(w) : w \in Widgets}]
  /\ \A w \in Widgets :
       applicationContext[w] \in (IF w \in on THEN PropsOf(w) ELSE {undefined})
  /\ messages = [w \in Widgets |->
                   IF w \in on THEN initialMessages(applicationContext[w]) ELSE << >>]
  /\ renderedMessages = messages
  /\ sockets = [w \in Widgets |-> << >>]
  /\ wsRef = [w \in Widgets |-> 0]
  /\ effect = [w \in Widgets |-> 0]
  /\ textarea = [w \in Widgets |-> << >>]
  /\ now = Epoch

Init == MountedWith({1})

\* ------------------------------------------------------- WebSocket effect
newWebSocket(ctx) ==
  [ context |-> ctx, readyState |-> "CONNECTING", closeCalled |-> FALSE,
    sent |-> << >> ]

\* WebSocket.close(): a socket that is connecting or open starts closing.
close(ws) ==
  [ ws EXCEPT !.closeCalled = TRUE,
              !.readyState = IF @ \in {"CONNECTING", "OPEN"} THEN "CLOSING" ELSE @ ]

\* The effect has to run: after the first render, after a render with a new
\* applicationContext, and (its cleanup) after the unmount.
effectPending(socks, eff, ph, ctx) ==
  IF ph = "mounted"
  THEN (IF eff = 0 THEN TRUE ELSE socks[eff].context # ctx)
  ELSE ph = "unmounted" /\ eff # 0

\* Mutant of flushPassiveEffects: the effect returns no cleanup.
flushWithoutCleanup(socks, ref, eff, ph, ctx) ==
  IF ~effectPending(socks, eff, ph, ctx)
  THEN [ sockets |-> socks, wsRef |-> ref, effect |-> eff ]
  ELSE IF ph = "mounted"
       THEN [ sockets |-> Append(socks, newWebSocket(ctx)),
              wsRef |-> Len(socks) + 1,
              effect |-> Len(socks) + 1 ]
       ELSE [ sockets |-> socks, wsRef |-> ref, effect |-> 0 ]

\* Cleanup of the effect that is set up, then the effect again if mounted.
flushPassiveEffects(socks, ref, eff, ph, ctx) ==
  IF ~effectPending(socks, eff, ph, ctx)
  THEN [ sockets |-> socks, wsRef |-> ref, effect |-> eff ]
  ELSE LET cleaned == IF eff # 0 THEN [socks EXCEPT ![eff] = close(@)] ELSE socks
       IN  IF ph = "mounted"
           THEN [ sockets |-> Append(cleaned, newWebSocket(ctx)),
                  wsRef |-> Len(cleaned) + 1,
                  effect |-> Len(cleaned) + 1 ]
           ELSE [ sockets |-> cleaned, wsRef |-> ref, effect |-> 0 ]

EffectPending(w) ==
  effectPending(sockets[w], effect[w], phase[w], applicationContext[w])

Flushed(w, socks) ==
  flushPassiveEffects(socks, wsRef[w], effect[w], phase[w], applicationContext[w])

\* The scheduler runs the pending passive effects of widget w.
RunEffects(w) ==
  /\ EffectPending(w)
  /\ sockets' = [sockets EXCEPT ![w] = Flushed(w, sockets[w]).sockets]
  /\ wsRef' = [wsRef EXCEPT ![w] = Flushed(w, sockets[w]).wsRef]
  /\ effect' = [effect EXCEPT ![w] = Flushed(w, sockets[w]).effect]
  /\ UNCHANGED << phase, applicationContext, messages, renderedMessages,
                  textarea, now >>

primingPayload(ctx) ==
  [ message |-> PrimingText, history |-> << >>, context |-> ctx ]

\* Mutant of onopenHandler: the priming frame is sent without looking at
\* applicationContext.
onopenAlwaysPrimes(ws) ==
  IF ws.readyState = "OPEN"
  THEN [ws EXCEPT !.sent = Append(@, primingPayload(ws.context))]
  ELSE ws

\* ws.onopen: the connection is established, readyState is OPEN.
onopenHandler(ws) ==
  IF ws.context # undefined /\ ws.readyState = "OPEN"
  THEN [ws EXCEPT !.sent = Append(@, primingPayload(ws.context))]
  ELSE ws

onopen(w, i) ==
  /\ i \in DOMAIN sockets[w]
  /\ sockets[w][i].readyState = "CONNECTING"
  /\ sockets' = [sockets EXCEPT
                   ![w][i] = onopenHandler([@ EXCEPT !.readyState = "OPEN"])]
  /\ UNCHANGED << phase, applicationContext, messages, renderedMessages,
                  wsRef, effect, textarea, now >>

\* The connection fails, is dropped, is closed by the server, or the closing
\* handshake ends; ws.onerror and ws.onclose only log.
onclose(w, i) ==
  /\ i \in DOMAIN sockets[w]
  /\ sockets[w][i].readyState # "CLOSED"
  /\ sockets' = [sockets EXCEPT ![w][i].readyState = "CLOSED"]
  /\ UNCHANGED << phase, applicationContext, messages, renderedMessages,
                  wsRef, effect, textarea, now >>

\* setMessages((prev) => [...prev, m]); React drops it once unmounted.
setMessagesAppend(w, m) ==
  IF phase[w] = "mounted" THEN Append(messages[w], m) ELSE messages[w]

\* The times Date.now() may return.
Clock == Epoch .. (Epoch + MaxTicks)

assistantMessage(responseText, t) ==
  [ id |-> toString(t), content |-> responseText, role |-> "assistant" ]

\* Mutant of onmessage: the sentinel is not filtered out.
onmessageUnfiltered(w, i, responseText, t) ==
  /\ i \in DOMAIN sockets[w]
  /\ sockets[w][i].readyState = "OPEN"
  /\ messages' = [messages EXCEPT
                    ![w] = setMessagesAppend(w, assistantMessage(responseText, t))]
  /\ now' = t
  /\ UNCHANGED << phase, applicationContext, renderedMessages, sockets,
                  wsRef, effect, textarea >>

\* ws.onmessage: a text frame arrives on an open socket, at time t.
onmessage(w, i, responseText, t) ==
  /\ i \in DOMAIN sockets[w]
  /\ sockets[w][i].readyState = "OPEN"
  /\ IF responseText # Connected
     THEN /\ messages' = [messages EXCEPT
                            ![w] = setMessagesAppend(w, assistantMessage(responseText, t))]
          /\ now' = t
     ELSE UNCHANGED << messages, now >>
  /\ UNCHANGED << phase, applicationContext, renderedMessages, sockets,
                  wsRef, effect, textarea >>

\* ------------------------------------------------------------ rendering
\* React renders the update a socket callback queued.
Render(w) ==
  /\ phase[w] = "mounted"
  /\ renderedMessages[w] # messages[w]
  /\ renderedMessages' = [renderedMessages EXCEPT ![w] = messages[w]]
  /\ sockets' = [sockets EXCEPT ![w] = Flushed(w, sockets[w]).sockets]
  /\ wsRef' = [wsRef EXCEPT ![w] = Flushed(w, sockets[w]).wsRef]
  /\ effect' = [effect EXCEPT ![w] = Flushed(w, sockets[w]).effect]
  /\ UNCHANGED << phase, applicationContext, messages, textarea, now >>

\* The page renders the widget with another applicationContext.
ChangeContext(w, ctx) ==
  /\ phase[w] = "mounted"
  /\ ~EffectPending(w)
  /\ ctx # applicationContext[w]
  /\ applicationContext' = [applicationContext EXCEPT ![w] = ctx]
  /\ \E seen \in {renderedMessages[w], messages[w]} :
       renderedMessages' = [renderedMessages EXCEPT ![w] = seen]
  /\ UNCHANGED << phase, messages, sockets, wsRef, effect, textarea, now >>

\* The page removes the widget.
Unmount(w) ==
  /\ phase[w] = "mounted"
  /\ ~EffectPending(w)
  /\ phase' = [phase EXCEPT ![w] = "unmounted"]
  /\ UNCHANGED << applicationContext, messages, renderedMessages, sockets,
                  wsRef, effect, textarea, now >>

\* ------------------------------------------------------ handleSendMessage
userMessage(message, t) ==
  [ id |-> toString(t), content |-> message, role |-> "user" ]

notGreeting(msg) == msg.id # GreetingId

roleAndContent(msgs) ==
  [ k \in 1..Len(msgs) |-> [ role |-> msgs[k].role, content |-> msgs[k].content ] ]

conversationHistory(w, um) ==
  roleAndContent(SelectSeq(Append(renderedMessages[w], um), notGreeting))

\* Mutant of canSend: only the presence of the socket is tested.
canSendAnyState(w) == wsRef[w] # 0

\* wsRef.current?.readyState === WebSocket.OPEN
canSend(w) ==
  wsRef[w] # 0 /\ sockets[w][wsRef[w]].readyState = "OPEN"

afterSend(w, message, t) ==
  IF canSend(w)
  THEN [ sockets[w] EXCEPT
           ![wsRef[w]].sent =
              Append(@, [ message |-> message,
                          history |-> conversationHistory(w, userMessage(message, t)),
                          context |-> applicationContext[w] ]) ]
  ELSE sockets[w]

\* Mutant of handleSendMessage: it returns early when the socket is not open.
handleSendMessageOpenOnly(w, message, t) ==
  IF ~canSend(w)
  THEN UNCHANGED << phase, applicationContext, messages, renderedMessages,
                    sockets, wsRef, effect, now >>
  ELSE
  /\ messages' = [messages EXCEPT ![w] = setMessagesAppend(w, userMessage(message, t))]
  /\ \E seen \in {renderedMessages[w], messages[w]} :
       renderedMessages' = [renderedMessages EXCEPT
                              ![w] = Append(seen, userMessage(message, t))]
  /\ sockets' = [sockets EXCEPT ![w] = Flushed(w, afterSend(w, message, t)).sockets]
  /\ wsRef' = [wsRef EXCEPT ![w] = Flushed(w, afterSend(w, message, t)).wsRef]
  /\ effect' = [effect EXCEPT ![w] = Flushed(w, afterSend(w, message, t)).effect]
  /\ now' = t
  /\ UNCHANGED << phase, applicationContext >>

\* The handler, then the synchronous re-render React makes after the event
\* (pending passive effects first; an update a socket callback queued and
\* that is not yet rendered may or may not be part of it).
handleSendMessage(w, message, t) ==
  /\ messages' = [messages EXCEPT ![w] = setMessagesAppend(w, userMessage(message, t))]
  /\ \E seen \in {renderedMessages[w], messages[w]} :
       renderedMessages' = [renderedMessages EXCEPT
                              ![w] = Append(seen, userMessage(message, t))]
  /\ sockets' = [sockets EXCEPT ![w] = Flushed(w, afterSend(w, message, t)).sockets]
  /\ wsRef' = [wsRef EXCEPT ![w] = Flushed(w, afterSend(w, message, t)).wsRef]
  /\ effect' = [effect EXCEPT ![w] = Flushed(w, afterSend(w, message, t)).effect]
  /\ now' = t
  /\ UNCHANGED << phase, applicationContext >>

\* -------------------------------------------------------------- ChatInput
\* The user edits the textarea of widget w.
Type(w, text) ==
  /\ phase[w] = "mounted"
  /\ textarea[w] # text
  /\ textarea' = [textarea EXCEPT ![w] = text]
  /\ UNCHANGED << phase, applicationContext, messages, renderedMessages,
                  sockets, wsRef, effect, now >>

handleKeyPress(w, key, shiftKey, t) ==
  /\ phase[w] = "mounted"
  /\ IF key = "Enter" /\ ~shiftKey /\ trim(textarea[w]) # << >>
     THEN /\ handleSendMessage(w, textarea[w], t)
          /\ textarea' = [textarea EXCEPT ![w] = << >>]
     ELSE UNCHANGED vars

\* document.querySelector("textarea"): the first textarea of the document,
\* 0 when there is none.  Widgets are laid out in the order of their numbers.
querySelectorTextarea ==
  LET shown == {v \in Widgets : phase[v] = "mounted"}
  IN  IF shown = {} THEN 0 ELSE CHOOSE v \in shown : \A u \in shown : v <= u

handleSendClick(w, t) ==
  /\ phase[w] = "mounted"
  /\ LET first == querySelectorTextarea
     IN  IF first # 0 /\ trim(textarea[first]) # << >>
         THEN /\ handleSendMessage(w, textarea[first], t)
              /\ textarea' = [textarea EXCEPT ![first] = << >>]
         ELSE UNCHANGED vars

\* ---------------------------------------------------------- specification
\* The transcript of w has room for a message made at time t.
Room(w, t) == Len(messages[w]) <= MaxMsgs /\ t >= now

\* What the page, React and the network do to widget w.
Lifecycle(w) ==
  \/ RunEffects(w)
  \/ \E ctx \in PropsOf(w) : Len(sockets[w]) < MaxSockets /\ ChangeContext(w, ctx)
  \/ Unmount(w)
  \/ \E i \in 1..MaxSockets : onclose(w, i)

Connection(w) ==
  \/ Render(w)
  \/ \E i \in 1..MaxSockets : onopen(w, i)
  \/ \E text \in TextsOf(w) : Type(w, text)

\* The handlers of widget w that read the clock, run at time t.
Handlers(w, t) ==
  \/ \E i \in 1..MaxSockets, f \in FramesOf(w) :
       Room(w, t) /\ onmessage(w, i, f, t)
  \/ \E key \in Keys, shiftKey \in BOOLEAN :
       Room(w, t) /\ handleKeyPress(w, key, shiftKey, t)
  \/ Room(w, t) /\ handleSendClick(w, t)

\* One widget; all events fall in the millisecond in which the page is shown.
\* (Date.now() only makes identifiers, which the handlers compare with "1".)
Next ==
  \/ Lifecycle(1)
  \/ Connection(1)
  \/ \E t \in {Epoch} : Handlers(1, t)

Spec == Init /\ [][Next]_vars

\* One widget, with time passing between the events.
NextClock ==
  \/ Lifecycle(1)
  \/ Connection(1)
  \/ \E t \in Clock : Handlers(1, t)

SpecClock == Init /\ [][NextClock]_vars

\* Two widgets on one page, each connected once and never reconfigured.
InitPage == MountedWith({1, 2})

NextPage ==
  \E w \in Widgets :
    \/ RunEffects(w)
    \/ Connection(w)
    \/ \E t \in Clock : Handlers(w, t)

SpecPage == InitPage /\ [][NextPage]_vars

\* ================================================================ claims
Last(q) == q[Len(q)]

isUser(m) == m.role = "user"

isPriming(f) == f.message = PrimingText /\ f.history = << >>

userFrames(q) == SelectSeq(q, LAMBDA f : ~isPriming(f))

\* A frame is appended to socket i of widget w in this step.
Sends(w, i) ==
  /\ i \in DOMAIN sockets[w]
  /\ sockets'[w][i].sent # sockets[w][i].sent

\* handleSendMessage of widget w sends a frame on socket i in this step.
UserSends(w, i) == Sends(w, i) /\ messages'[w] # messages[w]

hasNonWhitespace(text) == \E k \in DOMAIN text : text[k] # " "

\* parseInt of an identifier made by toString.
RECURSIVE toNumber(_)
toNumber(id) ==
  IF id = << >> THEN 0
  ELSE 10 * toNumber(SubSeq(id, 1, Len(id) - 1))
       + (CHOOSE d \in 0..9 : Digit[d + 1] = id[Len(id)])

\* C1: the history of every frame handleSendMessage sends is the whole
\* transcript as it is after the new user message was added, without the
\* greeting, as {role, content} pairs in arrival order.
C1_HistoryIsTranscript ==
  [][\A w \in Widgets : \A i \in 1..Len(sockets[w]) :
       UserSends(w, i) =>
         Last(sockets'[w][i].sent).history = roleAndContent(Tail(messages'[w]))]_vars

\* C2: every frame on a socket of widget w, and every message of its
\* transcript, is built from w's own input, w's own replies and w's own
\* applicationContext.
C2_NoCrossTalk ==
  \A w \in Widgets :
    /\ \A i \in 1..Len(sockets[w]) : \A k \in 1..Len(sockets[w][i].sent) :
         LET f == sockets[w][i].sent[k]
         IN  /\ f.message \in TextsOf(w) \cup {PrimingText}
             /\ f.context \in PropsOf(w)
             /\ \A h \in 1..Len(f.history) :
                  f.history[h].content \in TextsOf(w) \cup FramesOf(w)
    /\ \A k \in 2..Len(messages[w]) :
         messages[w][k].content \in TextsOf(w) \cup FramesOf(w)

\* C3: a frame is sent only on a socket on which close() was not called and
\* whose readyState is OPEN when send() is called.
C3_SendOnlyWhenOpen ==
  [][\A w \in Widgets : \A i \in 1..Len(sockets[w]) :
       Sends(w, i) =>
         /\ ~sockets[w][i].closeCalled
         /\ \/ sockets[w][i].readyState = "OPEN"
            \/ /\ sockets[w][i].readyState = "CONNECTING"
               /\ sockets'[w][i].readyState = "OPEN"]_vars

\* A socket was closed by the cleanup after it carried a user frame, and a
\* later send went out on the socket that replaced it.
C3_Witness ==
  \E w \in Widgets : \E i, j \in 1..Len(sockets[w]) :
    /\ i < j
    /\ sockets[w][i].closeCalled
    /\ userFrames(sockets[w][i].sent) # << >>
    /\ userFrames(sockets[w][j].sent) # << >>

\* The frames of a socket opened with an applicationContext start with its
\* one priming frame; a socket opened without one has no priming frame.
C4_PrimingShape ==
  \A w \in Widgets : \A i \in 1..Len(sockets[w]) :
    LET ws == sockets[w][i]
        primings == SelectSeq(ws.sent, isPriming)
    IN  IF ws.context = undefined
        THEN primings = << >>
        ELSE /\ ws.readyState = "CONNECTING" => ws.sent = << >>
             /\ ws.readyState = "OPEN" => ws.sent # << >>
             /\ ws.sent # << >> =>
                  /\ ws.sent[1] = primingPayload(ws.context)
                  /\ Len(primings) = 1

\* C4: a connection opened with an applicationContext sends the priming
\* frame when it opens, once, before every other frame; a connection opened
\* without one never sends a priming frame; a sent frame stays sent.
C4_PrimingOnce ==
  /\ []C4_PrimingShape
  /\ [][\A w \in Widgets : \A i \in 1..Len(sockets[w]) :
          /\ Len(sockets'[w][i].sent) >= Len(sockets[w][i].sent)
          /\ SubSeq(sockets'[w][i].sent, 1, Len(sockets[w][i].sent))
               = sockets[w][i].sent
          /\ (sockets[w][i].readyState = "CONNECTING"
                /\ sockets'[w][i].readyState = "OPEN"
                /\ sockets[w][i].context # undefined)
             => sockets'[w][i].sent = << primingPayload(sockets[w][i].context) >>]_vars

\* A socket opened with a context carries its priming frame, then a user frame.
C4_Witness ==
  \E w \in Widgets : \E i \in 1..Len(sockets[w]) :
    /\ sockets[w][i].context # undefined
    /\ Len(sockets[w][i].sent) >= 2
    /\ isPriming(sockets[w][i].sent[1])
    /\ ~isPriming(sockets[w][i].sent[2])

\* C5: every frame sent on a socket carries the applicationContext with
\* which that socket was opened.
C5_ContextFixedPerSocket ==
  \A w \in Widgets : \A i \in 1..Len(sockets[w]) :
    \A k \in 1..Len(sockets[w][i].sent) :
      sockets[w][i].sent[k].context = sockets[w][i].context

\* C6: within a transcript no two messages share an identifier, and a later
\* message never has a smaller identifier than an earlier one.
C6_IdsUniqueMonotonic ==
  \A w \in Widgets : \A j, k \in 1..Len(messages[w]) :
    j < k =>
      /\ messages[w][j].id # messages[w][k].id
      /\ toNumber(messages[w][j].id) <= toNumber(messages[w][k].id)

\* No assistant message has the sentinel as its content.
C7_NoSentinel ==
  \A w \in Widgets : \A k \in 1..Len(messages[w]) :
    messages[w][k].role = "assistant" => messages[w][k].content # Connected

\* C7: the sentinel "connected" is never the content of an assistant
\* message; every other frame ws.onmessage handles while the widget is
\* mounted appends exactly one assistant message with the frame's text and
\* leaves the earlier messages as they were.
C7_OnMessageAppends ==
  /\ []C7_NoSentinel
  /\ [][\A w \in Widgets : \A i \in 1..Len(sockets[w]) :
        \A f \in FramesOf(w) :
          (phase[w] = "mounted" /\ onmessage(w, i, f, now')) =>
            IF f = Connected
            THEN messages' = messages
            ELSE /\ Len(messages'[w]) = Len(messages[w]) + 1
                 /\ SubSeq(messages'[w], 1, Len(messages[w])) = messages[w]
                 /\ Last(messages'[w]).role = "assistant"
                 /\ Last(messages'[w]).content = f
                 /\ \A v \in Widgets \ {w} : messages'[v] = messages[v]]_vars

\* A reply was appended after a user message.
C7_Witness ==
  \E w \in Widgets :
    /\ Len(messages[w]) >= 3
    /\ messages[w][2].role = "user"
    /\ messages[w][3].role = "assistant"
    /\ messages[w][3].content \in FramesOf(w) \ {Connected}

C9_OneLiveSocket ==
  \A w \in Widgets :
    /\ \A i \in 1..Len(sockets[w]) : i < Len(sockets[w]) => sockets[w][i].closeCalled
    /\ wsRef[w] = Len(sockets[w])
    /\ (phase[w] = "unmounted" /\ ~EffectPending(w)) =>
         \A i \in 1..Len(sockets[w]) : sockets[w][i].closeCalled
    /\ Cardinality({i \in 1..Len(sockets[w]) :
                      /\ sockets[w][i].readyState \in {"CONNECTING", "OPEN"}
                      /\ ~sockets[w][i].closeCalled}) <= 1

\* An unmounted widget that had created two sockets, all closed.
C9_Witness ==
  \E w \in Widgets :
    /\ phase[w] = "unmounted"
    /\ Len(sockets[w]) >= 2
    /\ \A i \in 1..Len(sockets[w]) : sockets[w][i].closeCalled

\* C10: Enter without Shift, or a click on send, on a text with a
\* non-whitespace character passes the text as it is to onSend, once, and
\* empties the textarea it was read from; any other key press or a blank
\* text changes nothing.
C10_InputSendsNonBlank ==
  [][\A w \in Widgets :
       /\ \A key \in Keys : \A shiftKey \in BOOLEAN :
            handleKeyPress(w, key, shiftKey, now') =>
              IF key = "Enter" /\ ~shiftKey /\ hasNonWhitespace(textarea[w])
              THEN /\ messages'[w] = Append(messages[w], userMessage(textarea[w], now'))
                   /\ textarea' = [textarea EXCEPT ![w] = << >>]
              ELSE UNCHANGED vars
       /\ handleSendClick(w, now') =>
            LET first == querySelectorTextarea
            IN  IF hasNonWhitespace(textarea[first])
                THEN /\ messages'[w] = Append(messages[w], userMessage(textarea[first], now'))
                     /\ textarea' = [textarea EXCEPT ![first] = << >>]
                ELSE UNCHANGED vars]_vars

\* A text with leading white space was sent as it was, and the textarea is empty.
C10_Witness ==
  \E w \in Widgets :
    /\ textarea[w] = << >>
    /\ Len(messages[w]) >= 2
    /\ Last(messages[w]).role = "user"
    /\ Last(messages[w]).content # trim(Last(messages[w]).content)

====
